---- MODULE Spec2Model ----
(***************************************************************************)
(* Model of the WiFiLogger2 / MeteoHub node server (src/WiFiLogger2.py).   *)
(*                                                                         *)
(* The controller is driven by host callbacks that run one at a time:      *)
(* start, shortPoll, longPoll, the configuration-changed callback          *)
(* (process_config) and the commands DISCOVER, UPDATE_PROFILE and          *)
(* REMOVE_NOTICES_ALL.  Every action below is one whole callback.          *)
(*                                                                         *)
(* Numbers are fixed-point hundredths (20.0 is 2000).  Python dicts are    *)
(* sets of <<key, value>> pairs when only equality matters (customParams)  *)
(* and sequences of <<key, value>> pairs when iteration order matters      *)
(* (the *_list tables).                                                    *)
(***************************************************************************)
EXTENDS Integers, Sequences, FiniteSets, TLC

\* Longest driver list a node may get (each discover() run can lengthen the
\* class-level driver lists, see NewNodeDrivers).
MaxSlots == 9

VARIABLES
    ip,                 \* self.ip
    units,              \* self.units
    lists,              \* self.temperature_list ... self.lightning_list
    myConfig,           \* self.myConfig, the cached customParams block
    polyConfig,         \* self.polyConfig['customParams'], the host's block at start
    savedParams,        \* custom parameters handed to the host by addCustomParam
    nodes,              \* self.nodes, keyed by node address
    classDrivers,       \* the class attributes TemperatureNode.drivers, ...
    hostCopiesDrivers,  \* does the host's Node constructor copy the class list?
    notices,            \* the host's user-facing notices
    started,            \* start() has run
    op,                 \* the last callback and its inputs
    calls,              \* helper calls made by the last callback, in order
    http,               \* HTTP requests issued by the last callback
    writes,             \* setDriver calls completed by the last callback
    raised              \* the last callback let an exception escape to the host

vars == <<ip, units, lists, myConfig, polyConfig, savedParams, nodes,
          classDrivers, hostCopiesDrivers, notices, started, op, calls, http,
          writes, raised>>

\* What the plugin itself holds or shows (everything but the per-callback log).
core == <<ip, units, lists, myConfig, polyConfig, savedParams, nodes,
          classDrivers, notices, started>>

-----------------------------------------------------------------------------
(* Python dictionaries                                                     *)

HasKey(d, k) == \E p \in d : p[1] = k

Get(d, k, default) ==
    IF HasKey(d, k) THEN (CHOOSE p \in d : p[1] = k)[2] ELSE default

\* d.update(e) for dicts kept as sets of pairs
DictUpdate(d, e) == {p \in d : ~HasKey(e, p[1])} \cup e

\* seq[k] = v for an insertion-ordered dict kept as a sequence of pairs
DictSet(s, k, v) ==
    IF \E i \in 1..Len(s) : s[i][1] = k
    THEN [i \in 1..Len(s) |-> IF s[i][1] = k THEN <<k, v>> ELSE s[i]]
    ELSE Append(s, <<k, v>>)

-----------------------------------------------------------------------------
(* Inputs                                                                  *)

IPValues == {"", "192.168.1.5"}
UnitValues == {"metric"}

ParamBlocks ==
    { ipPart \cup unitPart :
        ipPart \in {{}} \cup {{<<"IPAddress", v>>} : v \in IPValues},
        unitPart \in {{}} \cup {{<<"Units", u>>} : u \in UnitValues} }

Configs ==
    {[has |-> TRUE, customParams |-> d] : d \in ParamBlocks}
        \cup {[has |-> FALSE, customParams |-> {}]}

IPNotice == "IP/Host address of the WiFiLogger2 device is required."
OtherNotice == "notice left by an earlier run"

Fields == <<"uv", "solar", "rainr", "rain24", "dew", "tempout", "chill",
            "humout", "bartr", "bar", "windspd", "gust", "winddir">>

FieldSet == {Fields[i] : i \in 1..Len(Fields)}

\* The device response of the end-to-end example
Snapshot ==
    {<<"tempout", "68.0">>, <<"humout", "55">>, <<"bar", "30.1">>,
     <<"bartr", "29.9">>, <<"windspd", "5">>, <<"gust", "10">>,
     <<"winddir", "180">>, <<"rainr", "0">>, <<"rain24", "0.25">>,
     <<"uv", "3">>, <<"solar", "450">>, <<"dew", "50">>, <<"chill", "68">>}

Malformed == "n/a"

Without(d, k) == {p \in d : p[1] # k}

Responses ==
    {[kind |-> "netfail", fields |-> {}],
     [kind |-> "badjson", fields |-> {}],
     [kind |-> "nonobject", fields |-> {}],
     [kind |-> "object", fields |-> Snapshot]}
    \cup {[kind |-> "object", fields |-> Without(Snapshot, f)] : f \in FieldSet}
    \cup {[kind |-> "object",
           fields |-> Without(Snapshot, f) \cup {<<f, Malformed>>}] : f \in FieldSet}

NoResp == [kind |-> "none", fields |-> {}]
NoCfg == [has |-> FALSE, customParams |-> {}]

Op(name, cfg, resp, failAt) ==
    [name |-> name, cfg |-> cfg, resp |-> resp, failAt |-> failAt]

-----------------------------------------------------------------------------
(* Numbers                                                                 *)

\* float(value) on the strings the device sends, in hundredths; -1 marks a
\* string float() rejects
ParseFloat(s) ==
    CASE s = "68.0" -> 6800
      [] s = "68"   -> 6800
      [] s = "55"   -> 5500
      [] s = "30.1" -> 3010
      [] s = "29.9" -> 2990
      [] s = "5"    -> 500
      [] s = "10"   -> 1000
      [] s = "180"  -> 18000
      [] s = "0"    -> 0
      [] s = "0.25" -> 25
      [] s = "3"    -> 300
      [] s = "450"  -> 45000
      [] s = "50"   -> 5000
      [] OTHER      -> -1

Parses(s) == ParseFloat(s) # -1

convert_to_float(value) == IF Parses(value) THEN ParseFloat(value) ELSE 0

\* n / d rounded to the nearest integer (d > 0)
RoundDiv(n, d) == (2 * n + d) \div (2 * d)

\* (value - 32) * 5.0 / 9.0, kept exact as a fraction of hundredths
f_to_c(value) == [num |-> (value - 3200) * 5, den |-> 9]

\* round(value, 1) of a fraction of hundredths, again in hundredths
Round1(q) == 10 * RoundDiv(q.num, q.den * 10)

-----------------------------------------------------------------------------
(* Unit / driver tables (uom module)                                       *)

UOM(name) ==
    CASE name = "I_TEMP_F"    -> 17
      [] name = "I_HUMIDITY"  -> 22
      [] name = "I_INHG"      -> 23
      [] name = "I_MPH"       -> 48
      [] name = "I_DEGREE"    -> 14
      [] name = "I_INHR"      -> 24
      [] name = "I_INCHES"    -> 105
      [] name = "I_UV"        -> 71
      [] name = "I_RADIATION" -> 74

\* TEMP_DRVS, HUMD_DRVS, PRES_DRVS, WIND_DRVS, RAIN_DRVS, LITE_DRVS, by category
DRVS(category, sub) ==
    CASE category = "temperature" /\ sub = "main"            -> "ST"
      [] category = "temperature" /\ sub = "dewpoint"        -> "GV0"
      [] category = "temperature" /\ sub = "windchill"       -> "GV1"
      [] category = "humidity"    /\ sub = "main"            -> "ST"
      [] category = "pressure"    /\ sub = "station"         -> "ST"
      [] category = "pressure"    /\ sub = "sealevel"        -> "GV0"
      [] category = "wind"        /\ sub = "windspeed"       -> "ST"
      [] category = "wind"        /\ sub = "gustspeed"       -> "GV0"
      [] category = "wind"        /\ sub = "winddir"         -> "GV1"
      [] category = "rain"        /\ sub = "rate"            -> "ST"
      [] category = "rain"        /\ sub = "total"           -> "GV5"
      [] category = "light"       /\ sub = "uv"              -> "ST"
      [] category = "light"       /\ sub = "solar_radiation" -> "GV0"

-----------------------------------------------------------------------------
(* Tables of the controller                                                *)

\* The seven measurement categories of the discover() docstring
Categories == {"temperature", "humidity", "pressure", "wind", "rain", "light",
               "lightning"}

\* The nodes discover() creates, in creation order (node address = list name)
DiscoverOrder == <<"temperature", "humidity", "pressure", "wind", "rain", "light">>

\* The class attribute `drivers` of each node class as written in the source
ClassDefault(a) ==
    IF a = "humidity" THEN <<[driver |-> "ST", value |-> 0, uom |-> 22]>> ELSE <<>>

\* The assignments of setup_nodedefs, in order
NodeDefAssignments ==
    << <<"temperature", "main", "I_TEMP_F">>,
       <<"temperature", "dewpoint", "I_TEMP_F">>,
       <<"temperature", "windchill", "I_TEMP_F">>,
       <<"humidity", "main", "I_HUMIDITY">>,
       <<"pressure", "station", "I_INHG">>,
       <<"pressure", "sealevel", "I_INHG">>,
       <<"wind", "windspeed", "I_MPH">>,
       <<"wind", "gustspeed", "I_MPH">>,
       <<"wind", "winddir", "I_DEGREE">>,
       <<"rain", "rate", "I_INHR">>,
       <<"rain", "total", "I_INCHES">>,
       <<"light", "uv", "I_UV">>,
       <<"light", "solar_radiation", "I_RADIATION">> >>

\* The setDriver calls of longPoll, in order
FieldMap ==
    << [field |-> "uv",      node |-> "light",       sub |-> "uv",              f2c |-> FALSE],
       [field |-> "solar",   node |-> "light",       sub |-> "solar_radiation", f2c |-> FALSE],
       [field |-> "rainr",   node |-> "rain",        sub |-> "rate",            f2c |-> FALSE],
       [field |-> "rain24",  node |-> "rain",        sub |-> "total",           f2c |-> FALSE],
       [field |-> "dew",     node |-> "temperature", sub |-> "dewpoint",        f2c |-> TRUE],
       [field |-> "tempout", node |-> "temperature", sub |-> "main",            f2c |-> TRUE],
       [field |-> "chill",   node |-> "temperature", sub |-> "windchill",       f2c |-> TRUE],
       [field |-> "humout",  node |-> "humidity",    sub |-> "main",            f2c |-> FALSE],
       [field |-> "bartr",   node |-> "pressure",    sub |-> "station",         f2c |-> FALSE],
       [field |-> "bar",     node |-> "pressure",    sub |-> "sealevel",        f2c |-> FALSE],
       [field |-> "windspd", node |-> "wind",        sub |-> "windspeed",       f2c |-> FALSE],
       [field |-> "gust",    node |-> "wind",        sub |-> "gustspeed",       f2c |-> FALSE],
       [field |-> "winddir", node |-> "wind",        sub |-> "winddir",         f2c |-> FALSE] >>

NumFields == Len(FieldMap)

-----------------------------------------------------------------------------
(* set_configuration, setup_nodedefs, discover                             *)

\* set_configuration: the IP address and unit system a customParams block yields
ResolveIP(params) == Get(params, "IPAddress", "")
ResolveUnits(params) == Get(params, "Units", "us")

RECURSIVE ApplyAssignments(_, _)
ApplyAssignments(ls, i) ==
    IF i > Len(NodeDefAssignments) THEN ls
    ELSE LET a == NodeDefAssignments[i]
         IN  ApplyAssignments([ls EXCEPT ![a[1]] = DictSet(@, a[2], a[3])], i + 1)

\* the *_list tables after setup_nodedefs
setup_lists(ls) == ApplyAssignments(ls, 1)

\* the driver slots discover() appends for category a
SlotsFor(ls, a) ==
    [i \in 1..Len(ls[a]) |->
        [driver |-> DRVS(a, ls[a][i][1]), value |-> 0, uom |-> UOM(ls[a][i][2])]]

\* node.drivers of a freshly built node after the append loop: the list the
\* instance starts with (the class attribute itself, or the host's copy of it,
\* which has the same contents) followed by the appended slots
NewNodeDrivers(cls, ls, a) == cls[a] \o SlotsFor(ls, a)

\* self.nodes after discover()
discover_nodes(nds, cls, ls) ==
    [a \in DOMAIN nds |->
        IF \E i \in 1..Len(DiscoverOrder) : DiscoverOrder[i] = a
        THEN [present |-> TRUE, drivers |-> NewNodeDrivers(cls, ls, a)]
        ELSE nds[a]]

\* the class attributes after discover(): appended to in place unless the
\* host's Node constructor gave the instance its own copy
discover_class(cls, ls, copies) ==
    IF copies THEN cls
    ELSE [a \in DOMAIN cls |->
            IF \E i \in 1..Len(DiscoverOrder) : DiscoverOrder[i] = a
            THEN NewNodeDrivers(cls, ls, a) ELSE cls[a]]

\* (variant: the missing-IP notice is added without removing the old notices)
NoticesAfterRebuild_keep(old, ipv) ==
    old \cup (IF ipv = "" THEN {IPNotice} ELSE {})

\* removeNoticesAll() followed by the missing-IP check
NoticesAfterRebuild(old, ipv) == IF ipv = "" THEN {IPNotice} ELSE {}

\* (variant: only the IP address of the block is compared with the cache)
ConfigChanged_ipOnly(params, cache) ==
    Get(params, "IPAddress", "") # Get(cache, "IPAddress", "")

\* `config['customParams'] != self.myConfig`
ConfigChanged(params, cache) == params # cache

\* the helper calls of one rebuild in process_config
RebuildCalls(ipv, pushOk) ==
    <<"set_configuration", "write_profile",
      IF pushOk THEN "installprofile" ELSE "installprofile:failed",
      "discover", "removeNoticesAll">>
        \o (IF ipv = "" THEN <<"addNotice">> ELSE <<>>)

\* the helper calls of start(): check_params() then discover()
StartCalls(ipv, pushOk) ==
    <<"set_configuration", "write_profile",
      IF pushOk THEN "installprofile" ELSE "installprofile:failed",
      "addCustomParam", "removeNoticesAll">>
        \o (IF ipv = "" THEN <<"addNotice">> ELSE <<>>)
        \o <<"discover">>

\* discover() is explored while no driver list outgrows MaxSlots
CanDiscover(cls, ls) ==
    \A a \in DOMAIN cls : Len(NewNodeDrivers(cls, ls, a)) <= MaxSlots

-----------------------------------------------------------------------------
(* longPoll                                                                *)

\* (variant: the guard is missing)
Unconfigured_never(ipv) == FALSE

\* the guard of longPoll: no device endpoint configured
Unconfigured(ipv) == ipv = ""

\* (variant: a failed request is retried once before giving up)
get_data_retry(resp) ==
    CASE resp.kind = "netfail"   -> [exc |-> "ConnectionError", requests |-> 2,
                                     isObject |-> FALSE, fields |-> {}]
      [] resp.kind = "badjson"   -> [exc |-> "ValueError", requests |-> 1,
                                     isObject |-> FALSE, fields |-> {}]
      [] resp.kind = "nonobject" -> [exc |-> "none", requests |-> 1,
                                     isObject |-> FALSE, fields |-> {}]
      [] OTHER                   -> [exc |-> "none", requests |-> 1,
                                     isObject |-> TRUE, fields |-> resp.fields]

\* get_data: one blocking GET, then json.loads of the body.  A failed request
\* and an unparsable body raise; a non-200 status is only logged.
get_data(resp) ==
    CASE resp.kind = "netfail"   -> [exc |-> "ConnectionError", requests |-> 1,
                                     isObject |-> FALSE, fields |-> {}]
      [] resp.kind = "badjson"   -> [exc |-> "ValueError", requests |-> 1,
                                     isObject |-> FALSE, fields |-> {}]
      [] resp.kind = "nonobject" -> [exc |-> "none", requests |-> 1,
                                     isObject |-> FALSE, fields |-> {}]
      [] OTHER                   -> [exc |-> "none", requests |-> 1,
                                     isObject |-> TRUE, fields |-> resp.fields]

\* the value handed to the host for one field: convert_to_float, f_to_c for
\* the temperature fields, and the rounding of TemperatureNode.setDriver
MappedValue(e, raw) ==
    IF e.f2c THEN Round1(f_to_c(convert_to_float(raw))) ELSE convert_to_float(raw)

\* the host's setDriver: the first slot with the driver code takes the value
SetDriverIn(drivers, code, value) ==
    LET hits == {i \in 1..Len(drivers) : drivers[i].driver = code}
    IN  IF hits = {} THEN drivers
        ELSE LET first == CHOOSE i \in hits : \A j \in hits : i <= j
             IN  [drivers EXCEPT ![first].value = value]

\* the exception, if any, that statement i of the mapping block raises:
\* self.nodes[...] on a missing node, data[...] on a non-object or a missing
\* key, or the driver write itself
FieldFailure(i, nds, data, failAt) ==
    LET e == FieldMap[i]
    IN  IF ~nds[e.node].present THEN "KeyError"
        ELSE IF ~data.isObject THEN "TypeError"
        ELSE IF ~HasKey(data.fields, e.field) THEN "KeyError"
        ELSE IF failAt = i THEN "SendError"
        ELSE "none"

\* one setDriver call of the mapping block
WriteOf(i, data) ==
    LET e == FieldMap[i]
    IN  [node   |-> e.node,
         driver |-> DRVS(e.node, e.sub),
         value  |-> MappedValue(e, Get(data.fields, e.field, ""))]

\* the node table after the setDriver calls ws[i..]
RECURSIVE ApplyWrites(_, _, _)
ApplyWrites(nds, ws, i) ==
    IF i > Len(ws) THEN nds
    ELSE ApplyWrites(
            [nds EXCEPT ![ws[i].node].drivers =
                            SetDriverIn(@, ws[i].driver, ws[i].value)],
            ws, i + 1)

\* the first statement of the mapping block, from i on, that raises
\* (NumFields + 1 when none does)
RECURSIVE FirstFailure(_, _, _, _)
FirstFailure(i, nds, data, failAt) ==
    IF i > NumFields THEN i
    ELSE IF FieldFailure(i, nds, data, failAt) # "none" THEN i
    ELSE FirstFailure(i + 1, nds, data, failAt)

\* the mapping block when statement `stop` is the first to raise: the
\* statements before it have run, the ones from it on have not
MapUpTo(stop, nds, data, failAt) ==
    [nodes  |-> ApplyWrites(nds, [i \in 1..(stop - 1) |-> WriteOf(i, data)], 1),
     writes |-> [i \in 1..(stop - 1) |-> WriteOf(i, data)],
     exc    |-> IF stop > NumFields THEN "none"
                ELSE FieldFailure(stop, nds, data, failAt)]

\* (variant: every statement has its own error boundary, so a raising
\* statement is skipped and the later ones still run)
RECURSIVE IsolatedWrites(_, _, _, _)
IsolatedWrites(i, nds, data, failAt) ==
    IF i > NumFields THEN <<>>
    ELSE IF FieldFailure(i, nds, data, failAt) # "none"
         THEN IsolatedWrites(i + 1, nds, data, failAt)
         ELSE <<WriteOf(i, data)>> \o IsolatedWrites(i + 1, nds, data, failAt)

MapFields_isolating(nds, data, failAt) ==
    [nodes  |-> ApplyWrites(nds, IsolatedWrites(1, nds, data, failAt), 1),
     writes |-> IsolatedWrites(1, nds, data, failAt),
     exc    |-> "none"]

\* the mapping block of longPoll: the statements run in order and the first
\* one that raises ends the block
MapFields(nds, data, failAt) ==
    MapUpTo(FirstFailure(1, nds, data, failAt), nds, data, failAt)

\* the inner `except Exception`: what still propagates out of the mapping block
ParseHandler(exc) == "none"

\* (variant: the outer handler catches connection errors only)
ConnectHandler_connOnly(exc) == IF exc = "ConnectionError" THEN "none" ELSE exc

\* the outer `except Exception`: what still propagates out of longPoll
ConnectHandler(exc) == "none"

\* longPoll as a whole: what it does to the node table and what it reports
longPoll_result(ipv, nds, resp, failAt) ==
    IF Unconfigured(ipv)
    THEN [nodes |-> nds, writes |-> <<>>, http |-> 0, exc |-> "none"]
    ELSE
        LET d == get_data(resp)
        IN  IF d.exc # "none"
            THEN [nodes |-> nds, writes |-> <<>>, http |-> d.requests,
                  exc |-> ConnectHandler(d.exc)]
            ELSE
                LET m == MapFields(nds, d, failAt)
                IN  [nodes |-> m.nodes, writes |-> m.writes, http |-> d.requests,
                     exc |-> ConnectHandler(ParseHandler(m.exc))]

-----------------------------------------------------------------------------
(* Initial state: the controller after __init__                            *)

InitWith(blocks, noticeSets) ==
    /\ ip = ""
    /\ units = "us"
    /\ lists = [c \in Categories |-> <<>>]
    /\ myConfig = {}
    /\ polyConfig \in blocks
    /\ savedParams = polyConfig
    /\ nodes = [a \in Categories |-> [present |-> FALSE, drivers |-> <<>>]]
    /\ classDrivers = [a \in Categories |-> ClassDefault(a)]
    /\ hostCopiesDrivers \in BOOLEAN
    /\ notices \in noticeSets
    /\ started = FALSE
    /\ op = Op("init", NoCfg, NoResp, 0)
    /\ calls = <<>>
    /\ http = 0
    /\ writes = <<>>
    /\ raised = FALSE

Init == InitWith(ParamBlocks, SUBSET {IPNotice, OtherNotice})

-----------------------------------------------------------------------------
(* Callbacks                                                               *)

\* set_configuration + setup_nodedefs + discover, shared by process_config
\* (on a change) and start
Rebuild(params) ==
    /\ CanDiscover(classDrivers, setup_lists(lists))
    /\ ip' = ResolveIP(params)
    /\ units' = ResolveUnits(params)
    /\ lists' = setup_lists(lists)
    /\ nodes' = discover_nodes(nodes, classDrivers, lists')
    /\ classDrivers' = discover_class(classDrivers, lists', hostCopiesDrivers)
    /\ myConfig' = params
    /\ notices' = NoticesAfterRebuild(notices, ip')

\* process_config(config)
process_config(config, pushOk) ==
    /\ op' = Op("process_config", config, NoResp, 0)
    /\ IF config.has /\ ConfigChanged(config.customParams, myConfig)
       THEN /\ Rebuild(config.customParams)
            /\ calls' = RebuildCalls(ip', pushOk)
            /\ UNCHANGED <<polyConfig, savedParams, started>>
       ELSE /\ pushOk
            /\ calls' = <<>>
            /\ UNCHANGED core
    /\ http' = 0
    /\ writes' = <<>>
    /\ raised' = FALSE
    /\ UNCHANGED hostCopiesDrivers

\* start(): check_params() then discover()
start(pushOk) ==
    /\ ~started
    /\ op' = Op("start", NoCfg, NoResp, 0)
    /\ Rebuild(polyConfig)
    /\ calls' = StartCalls(ip', pushOk)
    /\ savedParams' = DictUpdate(savedParams,
                                 {<<"IPAddress", ip'>>, <<"Units", units'>>})
    /\ started' = TRUE
    /\ http' = 0
    /\ writes' = <<>>
    /\ raised' = FALSE
    /\ UNCHANGED <<polyConfig, hostCopiesDrivers>>

shortPoll ==
    /\ op' = Op("shortPoll", NoCfg, NoResp, 0)
    /\ calls' = <<>>
    /\ http' = 0
    /\ writes' = <<>>
    /\ raised' = FALSE
    /\ UNCHANGED <<core, hostCopiesDrivers>>

\* longPoll(); resp is the device's answer to the request, if one is issued
longPoll(resp, failAt) ==
    \E r \in {longPoll_result(ip, nodes, resp, failAt)} :
        /\ (r.http = 0) <=> (resp = NoResp)
        /\ op' = Op("longPoll", NoCfg, resp, failAt)
        /\ nodes' = r.nodes
        /\ classDrivers' =
              IF hostCopiesDrivers THEN classDrivers
              ELSE [a \in DOMAIN classDrivers |->
                        IF r.nodes[a].present THEN r.nodes[a].drivers
                        ELSE classDrivers[a]]
        /\ calls' = <<>>
        /\ http' = r.http
        /\ writes' = r.writes
        /\ raised' = (r.exc # "none")
        /\ UNCHANGED <<ip, units, lists, myConfig, polyConfig, savedParams,
                       notices, started, hostCopiesDrivers>>

\* the DISCOVER command: discover()
discover ==
    /\ CanDiscover(classDrivers, lists)
    /\ op' = Op("discover", NoCfg, NoResp, 0)
    /\ nodes' = discover_nodes(nodes, classDrivers, lists)
    /\ classDrivers' = discover_class(classDrivers, lists, hostCopiesDrivers)
    /\ calls' = <<"discover">>
    /\ http' = 0
    /\ writes' = <<>>
    /\ raised' = FALSE
    /\ UNCHANGED <<ip, units, lists, myConfig, polyConfig, savedParams,
                   notices, started, hostCopiesDrivers>>

\* the UPDATE_PROFILE command: update_profile(command); a failing
\* installprofile() is not caught here
update_profile(pushOk) ==
    /\ op' = Op("update_profile", NoCfg, NoResp, 0)
    /\ calls' = <<IF pushOk THEN "installprofile" ELSE "installprofile:failed">>
    /\ http' = 0
    /\ writes' = <<>>
    /\ raised' = ~pushOk
    /\ UNCHANGED <<core, hostCopiesDrivers>>

\* the REMOVE_NOTICES_ALL command: remove_notices_all(command)
remove_notices_all ==
    /\ op' = Op("remove_notices_all", NoCfg, NoResp, 0)
    /\ notices' = {}
    /\ calls' = <<"removeNoticesAll">>
    /\ http' = 0
    /\ writes' = <<>>
    /\ raised' = FALSE
    /\ UNCHANGED <<ip, units, lists, myConfig, polyConfig, savedParams, nodes,
                   classDrivers, started, hostCopiesDrivers>>

-----------------------------------------------------------------------------
(* Specifications                                                          *)

FullSnapshot == [kind |-> "object", fields |-> Snapshot]

\* Spec: every configuration block, two device responses
FewPollInputs ==
    {<<NoResp, 0>>, <<[kind |-> "netfail", fields |-> {}], 0>>, <<FullSnapshot, 0>>}

Next ==
    \/ \E c \in Configs, ok \in BOOLEAN : process_config(c, ok)
    \/ \E ok \in BOOLEAN : start(ok)
    \/ shortPoll
    \/ \E inp \in FewPollInputs : longPoll(inp[1], inp[2])
    \/ discover
    \/ \E ok \in BOOLEAN : update_profile(ok)
    \/ remove_notices_all

Spec == Init /\ [][Next]_vars

\* SpecPoll: two configuration blocks, every device response; a failing
\* driver write is tried on the complete snapshot only
PollBlocks == {{<<"IPAddress", "192.168.1.5">>, <<"Units", "metric">>},
               {<<"IPAddress", "">>}}

PollConfigs == {[has |-> TRUE, customParams |-> d] : d \in PollBlocks}

PollInputs ==
    {<<NoResp, 0>>} \cup {<<r, 0>> : r \in Responses}
        \cup {<<FullSnapshot, k>> : k \in 1..NumFields}

InitPoll == InitWith({{}, {<<"IPAddress", "192.168.1.5">>}}, {{OtherNotice}})

NextPoll ==
    \/ \E c \in PollConfigs : process_config(c, TRUE)
    \/ start(TRUE)
    \/ shortPoll
    \/ \E inp \in PollInputs : longPoll(inp[1], inp[2])
    \/ discover
    \/ \E ok \in BOOLEAN : update_profile(ok)
    \/ remove_notices_all

SpecPoll == InitPoll /\ [][NextPoll]_vars

-----------------------------------------------------------------------------
(* Properties                                                              *)

\* the helper calls a rebuild in process_config starts with
IsRebuildLog(log) ==
    /\ Len(log) >= 5
    /\ log[1] = "set_configuration"
    /\ log[2] = "write_profile"
    /\ log[3] \in {"installprofile", "installprofile:failed"}
    /\ log[4] = "discover"
    /\ log[5] = "removeNoticesAll"

\* C1: a configuration callback whose customParams block equals the cached
\* copy does nothing at all; one whose block differs from the cache in any way
\* runs the full rebuild (configuration re-read, node definitions rebuilt,
\* discovery rerun, notices cleared) and leaves the cache equal to the
\* delivered block, so that delivering the same configuration again right
\* afterwards does nothing.
C1_ConfigChangeRebuildsOnce ==
    [][ /\ op'.name = "process_config" =>
              IF op'.cfg.has /\ op'.cfg.customParams # myConfig
              THEN /\ IsRebuildLog(calls')
                   /\ myConfig' = op'.cfg.customParams
                   /\ ip' = Get(op'.cfg.customParams, "IPAddress", "")
                   /\ units' = Get(op'.cfg.customParams, "Units", "us")
                   /\ \A i \in 1..Len(DiscoverOrder) : nodes'[DiscoverOrder[i]].present
                   /\ notices' \subseteq {IPNotice}
              ELSE /\ calls' = <<>>
                   /\ UNCHANGED core
        /\ (op.name = "process_config" /\ op'.name = "process_config"
                /\ op'.cfg = op.cfg) =>
              (calls' = <<>> /\ UNCHANGED core)
      ]_vars

\* C1 witness: a block equal to a cache that an earlier process_config rebuild
\* stored has just been delivered, and nothing ran
C1_Witness ==
    /\ op.name = "process_config"
    /\ op.cfg.has
    /\ op.cfg.customParams = myConfig
    /\ calls = <<>>
    /\ started
    /\ myConfig # polyConfig
    /\ nodes["light"].present

\* C2: in a long poll that fetched a JSON object, each of the 13 known fields
\* that is malformed or absent is written to its driver as 0.0 (as the
\* Celsius image of 0.0, to one decimal, for dew, tempout and chill), and no
\* error is raised.
C2_BadFieldsWrittenAsZero ==
    (op.name = "longPoll" /\ op.resp.kind = "object" /\ op.failAt = 0) =>
        /\ ~raised
        /\ \A i \in 1..NumFields :
              (\/ ~HasKey(op.resp.fields, FieldMap[i].field)
               \/ ~Parses(Get(op.resp.fields, FieldMap[i].field, Malformed))) =>
                 \E j \in 1..Len(writes) :
                    /\ writes[j].node = FieldMap[i].node
                    /\ writes[j].driver = DRVS(FieldMap[i].node, FieldMap[i].sub)
                    /\ writes[j].value = (IF FieldMap[i].f2c THEN -1780 ELSE 0)

\* C3: a second discover right after a discover leaves the node table, and
\* every node's list of driver slots, as the first one left them.
C3_DiscoverIdempotent ==
    [][(op.name = "discover" /\ op'.name = "discover") => nodes' = nodes]_vars

\* C4: a long poll whose HTTP fetch fails issues exactly one request, writes
\* no driver, raises nothing and changes neither configuration, cache, node
\* table nor notices; a long poll that follows it and receives the complete
\* snapshot issues its own request and writes all the drivers.
C4_FetchFailureLeavesStateAlone ==
    [][ /\ (op'.name = "longPoll" /\ op'.resp.kind = "netfail") =>
              /\ http' = 1
              /\ writes' = <<>>
              /\ ~raised'
              /\ UNCHANGED core
        /\ (op.name = "longPoll" /\ op.resp.kind = "netfail"
                /\ op'.name = "longPoll" /\ op'.resp = FullSnapshot
                /\ op'.failAt = 0) =>
              /\ http' = 1
              /\ Len(writes') = NumFields
              /\ \A j \in 1..NumFields :
                    /\ writes'[j].node = FieldMap[j].node
                    /\ \E k \in 1..Len(nodes'[writes'[j].node].drivers) :
                          /\ nodes'[writes'[j].node].drivers[k].driver = writes'[j].driver
                          /\ nodes'[writes'[j].node].drivers[k].value = writes'[j].value
              /\ nodes'["temperature"].drivers[1].value = 2000
      ]_vars

\* C4 witness: a long poll with a configured endpoint has just had its fetch fail
C4_Witness ==
    /\ op.name = "longPoll"
    /\ op.resp.kind = "netfail"
    /\ ip # ""
    /\ http = 1
    /\ writes = <<>>

\* C5: after process_config has processed a changed configuration, and after
\* start, no earlier notice is left and the missing-IP notice is shown exactly
\* when the IP address resolved from that configuration is empty.
C5_NoticeIffNoAddress ==
    /\ (op.name = "process_config" /\ calls # <<>>) =>
          /\ ip = Get(op.cfg.customParams, "IPAddress", "")
          /\ notices = (IF Get(op.cfg.customParams, "IPAddress", "") = ""
                        THEN {IPNotice} ELSE {})
    /\ op.name = "start" =>
          /\ ip = Get(polyConfig, "IPAddress", "")
          /\ notices = (IF Get(polyConfig, "IPAddress", "") = ""
                        THEN {IPNotice} ELSE {})

\* C5 witness: a changed configuration carrying an empty IPAddress has just
\* been processed and the notice is up
C5_Witness ==
    /\ op.name = "process_config"
    /\ calls # <<>>
    /\ HasKey(op.cfg.customParams, "IPAddress")
    /\ ip = ""
    /\ notices = {IPNotice}

\* C6: after every discover the node table holds a node for each of the seven
\* categories, each with exactly one driver slot of value 0 per enabled
\* sub-measurement of its category.
C6_SevenNodesAfterDiscover ==
    (\E i \in 1..Len(calls) : calls[i] = "discover") =>
        \A a \in Categories :
            /\ nodes[a].present
            /\ Len(nodes[a].drivers) = Len(lists[a])
            /\ \A k \in 1..Len(nodes[a].drivers) : nodes[a].drivers[k].value = 0

\* C7: a failing profile push is never fatal: no callback that pushes the
\* profile (process_config, start, UPDATE_PROFILE) lets the failure escape,
\* and in the rebuilds discovery still runs after it.
C7_ProfilePushNeverFatal ==
    (\E i \in 1..Len(calls) : calls[i] = "installprofile:failed") =>
        /\ ~raised
        /\ op.name \in {"process_config", "start"} =>
              \E i \in 1..Len(calls) : calls[i] = "discover"

\* C8: a long poll with an empty IP address issues no request, writes no
\* driver, raises nothing and changes neither configuration, cache, node
\* table nor notices.
C8_UnconfiguredPollIsNoop ==
    [][(op'.name = "longPoll" /\ ip = "") =>
            (http' = 0 /\ writes' = <<>> /\ ~raised' /\ UNCHANGED core)]_vars

\* C8 witness: a long poll has just run with an IP address that a
\* configuration change after start reset to empty
C8_Witness ==
    /\ op.name = "longPoll"
    /\ ip = ""
    /\ http = 0
    /\ started
    /\ myConfig # polyConfig
    /\ HasKey(myConfig, "IPAddress")
    /\ nodes["temperature"].present

\* the statements of the last long poll that raised: a field missing from the
\* fetched object, or a failing driver write
FailedStatements ==
    {i \in 1..NumFields :
        ~HasKey(op.resp.fields, FieldMap[i].field) \/ op.failAt = i}

\* C9 as claimed: a failure while mapping one field leaves every driver of the
\* other categories written with its snapshot value.
C9_OtherCategoriesStillWritten ==
    (op.name = "longPoll" /\ op.resp.kind = "object") =>
        \A k \in FailedStatements, i \in 1..NumFields :
            FieldMap[i].node # FieldMap[k].node =>
                \E j \in 1..Len(writes) :
                    /\ writes[j].node = FieldMap[i].node
                    /\ writes[j].driver = DRVS(FieldMap[i].node, FieldMap[i].sub)

\* C9 as amended: a failure while mapping one field is caught, the fields
\* before it in the mapping order are written with their snapshot values, and
\* the failing field and every field after it are left unwritten.
C9_FailureEndsMapping ==
    (op.name = "longPoll" /\ op.resp.kind = "object") =>
        \A k \in FailedStatements :
            /\ ~raised
            /\ Len(writes) = k - 1
            /\ \A i \in 1..(k - 1) :
                  /\ writes[i].node = FieldMap[i].node
                  /\ writes[i].driver = DRVS(FieldMap[i].node, FieldMap[i].sub)
                  /\ writes[i].value =
                        (IF FieldMap[i].f2c
                         THEN 10 * RoundDiv(
                                ParseFloat(Get(op.resp.fields, FieldMap[i].field, "")) - 3200,
                                18)
                         ELSE ParseFloat(Get(op.resp.fields, FieldMap[i].field, "")))
                  /\ \E s \in 1..Len(nodes[FieldMap[i].node].drivers) :
                        /\ nodes[FieldMap[i].node].drivers[s].driver = writes[i].driver
                        /\ nodes[FieldMap[i].node].drivers[s].value = writes[i].value

\* C9 witness: the write of chill, the seventh field, has just failed after six
\* completed writes
C9_Witness ==
    /\ op.name = "longPoll"
    /\ op.failAt = 7
    /\ Len(writes) = 6
    /\ ~raised

\* C10: longPoll never lets an exception escape, whatever the device answers
\* and whether or not a driver write fails.
C10_LongPollNeverRaises == op.name = "longPoll" => ~raised

\* C10 witness: a long poll has just returned normally from a body that is not
\* valid JSON
C10_Witness ==
    /\ op.name = "longPoll"
    /\ op.resp.kind = "badjson"
    /\ http = 1
    /\ ~raised

====
